---- MODULE Spec2Model ----
(***************************************************************************)
(* The embed-cache-classify notebooks.                                     *)
(*                                                                         *)
(*   Obtain_dataset            src/unnamed/part_000                        *)
(*   Multiclass transactions   src/unnamed/part_001                        *)
(*   Classification            src/examples/Classification_using_...ipynb  *)
(*                                                                         *)
(* A notebook cell is an operation.  The embedding cell is a loop over the *)
(* records with one blocking call to the provider per record, so it is     *)
(* modelled as one step per record followed by the to_csv step.            *)
(*                                                                         *)
(* Text is a sequence of symbols.  A symbol is one character of a field    *)
(* ("a", " ", a digit, a newline) or one of the fixed literals the code    *)
(* concatenates ("Title: ", "; Content: ", ...).  Field characters never   *)
(* spell a literal, so two texts are equal exactly when their symbol       *)
(* sequences are equal.                                                    *)
(***************************************************************************)
EXTENDS Integers, Sequences, FiniteSets, TLC

VARIABLES
    input,      \* rows of the csv file the notebook reads
    df,         \* the notebook's DataFrame: a sequence of rows
    pc,         \* the cell that runs next
    idx,        \* Series.apply: position of the next record to embed
    col,        \* Series.apply: the vectors obtained so far
    requests,   \* every call made to the embedding provider, in order
    file,       \* the csv file written by to_csv: [exists, rows]
    run,        \* "first" run of the notebook, or a "rerun" on the same input
    prevFile,   \* history: the file as it was when the current run started
    clf,        \* classification cell: [state, rows, X_train, X_test, y_train, y_test]
    rng,        \* numpy RandomState: the permutation drawn for (seed, n), once drawn
    splits,     \* history: the results of the train_test_split calls made so far
    train_file, \* prepared fine-tune training file: a sequence of completions
    valid_file, \* prepared fine-tune validation file: a sequence of completions
    printed,    \* what check_finetune_classes printed
    dataset,    \* rows of the csv file of all transactions
    transactions,     \* the DataFrame of all transactions
    prompt_template,  \* the prompt given to classify_transaction
    completed,        \* the calls of classify_transaction made so far
    class_df,         \* fine-tune preparation: the class-to-id table
    ft_df_with_class, \* fine-tune preparation: the labelled set with ids and prompts
    holdout_df        \* the holdout set

\* The state of the cells around the embedding pipeline of the transactions
\* notebook.
txvars == <<dataset, transactions, prompt_template, completed, class_df, ft_df_with_class, holdout_df>>

vars == <<input, df, pc, idx, col, requests, file, run, prevFile, clf, rng,
          splits, train_file, valid_file, printed, txvars>>

---------------------------------------------------------------------------
(* Bounds of the model *)

\* Largest number of rows of an input table.
MaxRows == 3

\* Largest number of rows of the labelled transactions table.
MaxTrans == 3

\* top_n = 1000 in the source (part_000:164); scaled so that an input of
\* MaxRows rows is longer than the 2 * top_n cut.
top_n == 1

\* max_tokens = 8000 in the source (part_000:48); scaled to the length of the
\* sample texts.
max_tokens == 6

---------------------------------------------------------------------------
(* Strings *)

\* str.strip() with no argument removes leading and trailing whitespace.
Whitespace == {" ", "\n"}

\* A missing field of the csv (pandas NaN).
NaN == <<"NaN">>

isna(x) == x = NaN

RECURSIVE lstrip(_)
lstrip(s) ==
    IF s # <<>> /\ Head(s) \in Whitespace THEN lstrip(Tail(s)) ELSE s

RECURSIVE rstrip(_)
rstrip(s) ==
    IF s # <<>> /\ s[Len(s)] \in Whitespace
    THEN rstrip(SubSeq(s, 1, Len(s) - 1))
    ELSE s

strip(s) == rstrip(lstrip(s))

\* str(n) for a non-negative integer: its decimal digits.
Digit(d) == CASE d = 0 -> "0" [] d = 1 -> "1" [] d = 2 -> "2" [] d = 3 -> "3"
              [] d = 4 -> "4" [] d = 5 -> "5" [] d = 6 -> "6" [] d = 7 -> "7"
              [] d = 8 -> "8" [] d = 9 -> "9"

RECURSIVE IntStr(_)
IntStr(n) == IF n < 10 THEN <<Digit(n)>> ELSE IntStr(n \div 10) \o <<Digit(n % 10)>>

Spaces(n) == [i \in 1..n |-> " "]

Max(S) == CHOOSE m \in S : \A x \in S : x <= m

RECURSIVE Concat(_)
Concat(ss) == IF ss = <<>> THEN <<>> ELSE Head(ss) \o Concat(Tail(ss))

---------------------------------------------------------------------------
(* Sample inputs *)

\* Longest field text drawn exhaustively.
MaxStrLen == 2

Chars == {"a"} \cup Whitespace

\* Every text over Chars of at most n characters.
StrsUpTo(n) == UNION {[1..k -> Chars] : k \in 0..n}

Strs == StrsUpTo(MaxStrLen)

\* A text of n characters with no whitespace.
Pad(n) == [i \in 1..n |-> "a"]

\* A missing numeric field (pandas NaN in a numeric column).
NaNNum == 0 - 1

\* One row of data/fine_food_reviews_1k.csv.  index is the file's first
\* column (index_col=0).
ReviewRow(i, t, u, sc, su, tx) ==
    [index |-> i, Time |-> t, ProductId |-> <<"P">>, UserId |-> u, Score |-> sc,
     Summary |-> su, Text |-> tx]

\* Rows with every text field drawn exhaustively, for the combined field.
RichReviewRows(i) ==
    {ReviewRow(i, 1, <<"U">>, 5, su, tx) : su \in Strs \cup {NaN}, tx \in Strs \cup {NaN}}

\* A few fixed rows, one of them with a missing field in each kind of column.
FewReviewRows(i) ==
    {ReviewRow(i, 2, <<"U">>, 1, <<" ", "a">>, <<"a", " ", "a", "\n">>),
     ReviewRow(i, 1, NaN, 4, <<"a">>, <<"a">>),
     ReviewRow(i, 1, <<"U">>, NaNNum, <<"a">>, <<"a">>),
     ReviewRow(i, 3, <<"U">>, 2, <<>>, <<"a">>)}

\* One row of data/labelled_transactions.csv.
TransRow(su, de, v, c) ==
    [Supplier |-> su, Description |-> de, Value |-> v, Classification |-> c]

TransactionValues == {5, 12}

Classes == {"Building Improvement", "Utility Bills"}

RichTransRows ==
    {TransRow(su, de, v, "Utility Bills") : su \in Strs, de \in Strs, v \in TransactionValues}

FewTransRows ==
    {TransRow(<<"a", " ">>, <<" ", "a">>, 5, "Building Improvement"),
     TransRow(<<"a">>, <<"a", "a">>, 12, "Utility Bills")}

---------------------------------------------------------------------------
(* Obtain_dataset: load the dataset (part_000:135-143) *)

\* DataFrame.dropna(): a row is dropped when any of its fields is missing.
notna(r) ==
    /\ r.Time # NaNNum
    /\ r.Score # NaNNum
    /\ ~isna(r.ProductId)
    /\ ~isna(r.UserId)
    /\ ~isna(r.Summary)
    /\ ~isna(r.Text)

dropna(d) == SelectSeq(d, notna)

\* ReviewCombined with the review body left as it is in the file.
ReviewCombinedUnstripped(r) ==
    <<"Title: ">> \o strip(r.Summary) \o <<"; Content: ">> \o r.Text

\* "Title: " + df.Summary.str.strip() + "; Content: " + df.Text.str.strip()
ReviewCombined(r) ==
    <<"Title: ">> \o strip(r.Summary) \o <<"; Content: ">> \o strip(r.Text)

WithCombined(r) ==
    [index |-> r.index, Time |-> r.Time, ProductId |-> r.ProductId,
     UserId |-> r.UserId, Score |-> r.Score, Summary |-> r.Summary,
     Text |-> r.Text, combined |-> ReviewCombined(r)]

LoadReviews ==
    /\ pc = "load"
    /\ df' = [i \in DOMAIN dropna(input) |-> WithCombined(dropna(input)[i])]
    /\ pc' = "subsample"
    /\ UNCHANGED <<input, idx, col, requests, file, run, prevFile, clf, rng,
                   splits, train_file, valid_file, printed>>
    /\ UNCHANGED txvars

---------------------------------------------------------------------------
(* Transactions: the labelled set and its combined field (part_001:269-293) *)

\* df = pd.read_csv('./data/labelled_transactions.csv')
ReadLabelled ==
    /\ pc = "t_read"
    /\ df' = input
    /\ pc' = "t_combine"
    /\ UNCHANGED <<input, idx, col, requests, file, run, prevFile, clf, rng,
                   splits, train_file, valid_file, printed>>
    /\ UNCHANGED txvars

\* str(series) of an integer column: one line per row, the index left-aligned,
\* the values right-aligned, then the Name/dtype line.  (pandas abbreviates a
\* Series of more than 60 rows; the tables drawn here are shorter.)
SeriesLine(i, v, iw, vw) ==
    IntStr(i) \o Spaces(iw - Len(IntStr(i))) \o Spaces(4)
        \o Spaces(vw - Len(IntStr(v))) \o IntStr(v) \o <<"\n">>

SeriesStr(vs) ==
    IF vs = <<>>
    THEN <<"Series([], Name: Transaction value (£), dtype: int64)">>
    ELSE LET iw == Len(IntStr(Len(vs) - 1))
             vw == Max({Len(IntStr(vs[i])) : i \in DOMAIN vs})
         IN  Concat([i \in DOMAIN vs |-> SeriesLine(i - 1, vs[i], iw, vw)])
                 \o <<"Name: Transaction value (£), dtype: int64">>

ValueColumn(d) == [i \in DOMAIN d |-> d[i].Value]

\* "Supplier: " + df['Supplier'].str.strip() + "; Description: "
\*     + df['Description'].str.strip() + "; Value: "
\*     + str(df['Transaction value']).strip()
\* The last operand is str() of the whole column, one string for every row.
TransCombined(d, i) ==
    <<"Supplier: ">> \o strip(d[i].Supplier) \o <<"; Description: ">>
        \o strip(d[i].Description) \o <<"; Value: ">>
        \o strip(SeriesStr(ValueColumn(d)))

CombineTransactions ==
    /\ pc = "t_combine"
    /\ df' = [i \in DOMAIN df |->
                [Supplier |-> df[i].Supplier, Description |-> df[i].Description,
                 Value |-> df[i].Value, Classification |-> df[i].Classification,
                 combined |-> TransCombined(df, i)]]
    /\ pc' = "t_tokens"
    /\ UNCHANGED <<input, idx, col, requests, file, run, prevFile, clf, rng,
                   splits, train_file, valid_file, printed>>
    /\ UNCHANGED txvars

---------------------------------------------------------------------------
(* Obtain_dataset: subsample and omit long reviews (part_000:163-173) *)

\* len(encoding.encode(x)): the tokenizer is a library; here one token per
\* symbol of the text.
n_tokens(x) == Len(x)

\* DataFrame.tail(n): the last n rows.
tail(d, n) == SubSeq(d, IF Len(d) > n THEN Len(d) - n + 1 ELSE 1, Len(d))

Orders(n) == {p \in [1..n -> 1..n] : \A i, j \in 1..n : p[i] = p[j] => i = j}

\* sort_values("Time") with the default quicksort, which is not stable: any
\* order of the rows that is ascending in Time.
SortedByTime(d) ==
    {[i \in DOMAIN d |-> d[p[i]]] : p \in
        {q \in Orders(Len(d)) :
            \A i, j \in DOMAIN d : i < j => d[q[i]].Time <= d[q[j]].Time}}

\* df.n_tokens < max_tokens
WithinLimitStrict(r) == r.n_tokens < max_tokens

\* df.n_tokens <= max_tokens
WithinLimit(r) == r.n_tokens <= max_tokens

\* drop("Time", axis=1) and the n_tokens column
WithTokens(r) ==
    [index |-> r.index, ProductId |-> r.ProductId, UserId |-> r.UserId,
     Score |-> r.Score, Summary |-> r.Summary, Text |-> r.Text,
     combined |-> r.combined, n_tokens |-> n_tokens(r.combined)]

\* RecentCut that keeps top_n rows only.
RecentCutShort(s) == tail(s, top_n)

\* df.sort_values("Time").tail(top_n * 2), with the rows in the order s
RecentCut(s) == tail(s, top_n * 2)

\* df[df.n_tokens <= max_tokens].tail(top_n)
OmitLong(d) == tail(SelectSeq(d, WithinLimit), top_n)

Subsample ==
    /\ pc = "subsample"
    /\ \E s \in SortedByTime(df) :
          df' = OmitLong([i \in DOMAIN RecentCut(s) |-> WithTokens(RecentCut(s)[i])])
    /\ idx' = 1
    /\ col' = <<>>
    /\ pc' = "embed"
    /\ UNCHANGED <<input, requests, file, run, prevFile, clf, rng, splits,
                   train_file, valid_file, printed>>
    /\ UNCHANGED txvars

---------------------------------------------------------------------------
(* The embedding provider and the csv file *)

\* Sample vectors the provider returns (the components stand for floats).
Vectors == {<<0, 12>>, <<3, 4>>}

\* get_embedding(x, engine=...) returns a vector or raises.
Responses == {[ok |-> TRUE, vec |-> v] : v \in Vectors} \cup {[ok |-> FALSE, vec |-> <<>>]}

embedding_model == "text-embedding-ada-002"

\* str(list): "[" + ", ".join(repr(x)) + "]", as to_csv writes the column.
RECURSIVE JoinItems(_)
JoinItems(v) ==
    IF v = <<>> THEN <<>>
    ELSE IF Len(v) = 1 THEN IntStr(v[1])
    ELSE IntStr(v[1]) \o <<",", " ">> \o JoinItems(Tail(v))

\* Serialize with every number cut to a multiple of ten (a float_format that
\* drops digits).
SerializeRounded(v) == <<"[">> \o JoinItems([i \in DOMAIN v |-> (v[i] \div 10) * 10]) \o <<"]">>

Serialize(v) == <<"[">> \o JoinItems(v) \o <<"]">>

DigitVal(c) == CHOOSE d \in 0..9 : Digit(d) = c

\* eval of the text of a list of numbers
RECURSIVE ParseItems(_, _, _, _)
ParseItems(b, cur, have, acc) ==
    IF b = <<>> THEN (IF have THEN Append(acc, cur) ELSE acc)
    ELSE IF Head(b) = "," THEN ParseItems(Tail(b), 0, FALSE, Append(acc, cur))
    ELSE IF Head(b) = " " THEN ParseItems(Tail(b), cur, have, acc)
    ELSE ParseItems(Tail(b), cur * 10 + DigitVal(Head(b)), TRUE, acc)

\* Eval that loses the last character of the list.
EvalShort(s) == ParseItems(SubSeq(s, 2, Len(s) - 2), 0, FALSE, <<>>)

Eval(s) == ParseItems(SubSeq(s, 2, Len(s) - 1), 0, FALSE, <<>>)

Request(text, engine, r) ==
    [text |-> text, engine |-> engine, run |-> run, ok |-> r.ok, vec |-> r.vec]

---------------------------------------------------------------------------
(* Obtain_dataset: get embeddings and save (part_000:190-194) *)

\* Series.apply with an outcome that stores an empty vector for a failed
\* record and goes on.
ApplyResultSkip(r, at) ==
    IF r.ok
    THEN [col |-> Append(col, r.vec), idx |-> idx + 1, pc |-> at]
    ELSE [col |-> Append(col, <<>>), idx |-> idx + 1, pc |-> at]

\* What one call of the lambda of df.combined.apply leaves: the vector is
\* appended to the column being built and the loop goes on, or the error
\* raised by get_embedding ends the cell (nothing catches it).
ApplyResult(r, at) ==
    IF r.ok
    THEN [col |-> Append(col, r.vec), idx |-> idx + 1, pc |-> at]
    ELSE [col |-> col, idx |-> idx, pc |-> "halted"]

\* get_embedding(x, engine=engine) for the next record of df.combined
EmbedNext(engine) ==
    /\ idx <= Len(df)
    /\ \E r \in Responses :
          /\ requests' = Append(requests, Request(df[idx].combined, engine, r))
          /\ col' = ApplyResult(r, pc).col
          /\ idx' = ApplyResult(r, pc).idx
          /\ pc' = ApplyResult(r, pc).pc

GetEmbedding ==
    /\ pc = "embed"
    /\ EmbedNext(embedding_model)
    /\ UNCHANGED <<input, df, file, run, prevFile, clf, rng, splits,
                   train_file, valid_file, printed>>
    /\ UNCHANGED txvars

WithEmbedding(r, v) ==
    [index |-> r.index, ProductId |-> r.ProductId, UserId |-> r.UserId,
     Score |-> r.Score, Summary |-> r.Summary, Text |-> r.Text,
     combined |-> r.combined, n_tokens |-> r.n_tokens, embedding |-> v]

\* What to_csv writes for a row: the embedding as the text of the list.
CsvRow(r) == WithEmbedding(r, Serialize(r.embedding))

\* df["embedding"] = <the column>; df.to_csv(...)
SaveEmbeddings ==
    /\ pc = "embed"
    /\ idx > Len(df)
    /\ df' = [i \in DOMAIN df |-> WithEmbedding(df[i], col[i])]
    /\ file' = [exists |-> TRUE, rows |-> [i \in DOMAIN df |-> CsvRow(df'[i])]]
    /\ pc' = "done"
    /\ UNCHANGED <<input, idx, col, requests, run, prevFile, clf, rng, splits,
                   train_file, valid_file, printed>>
    /\ UNCHANGED txvars

\* The notebook is run again from its first cell on the same input file.
Rerun ==
    /\ pc \in {"done", "halted"}
    /\ run = "first"
    /\ run' = "rerun"
    /\ prevFile' = file
    /\ pc' = "load"
    /\ df' = <<>>
    /\ idx' = 1
    /\ col' = <<>>
    /\ UNCHANGED <<input, requests, file, clf, rng, splits, train_file,
                   valid_file, printed>>
    /\ UNCHANGED txvars

---------------------------------------------------------------------------
(* Classification: load the saved table and split it                       *)
(* (Classification_using_embeddings.ipynb:33-42)                           *)

random_state == 42

\* Seeds a RandomState can start from (random_state=None draws one afresh).
AnySeeds == {random_state, 7}

\* train_test_split(..., random_state=42): the seed of the shuffle.
SplitSeeds == {random_state}

\* test_size=0.2: n_test = ceil(0.2 * n), n_train = n - n_test
NTest(n) == (n + 4) \div 5

\* pd.read_csv(path) and df.embedding.apply(eval): the rows get a fresh
\* RangeIndex and the text of each embedding is parsed back to a vector.
ReadCsv(f) == [i \in DOMAIN f.rows |-> WithEmbedding(f.rows[i], Eval(f.rows[i].embedding))]

\* A pandas Series of labels: each value keeps the label of its row.
LabelSeries(rows, field) == [i \in DOMAIN rows |-> [label |-> i - 1, value |-> rows[i][field]]]

\* ShuffleSplit: the first n_test places of the permutation are the test
\* rows, the rest the training rows; X and y are indexed alike.
SplitBy(X, y, perm) ==
    LET n == Len(X)
        nt == NTest(n)
    IN  [X_train |-> [j \in 1..(n - nt) |-> X[perm[nt + j]]],
         X_test  |-> [j \in 1..nt |-> X[perm[j]]],
         y_train |-> [j \in 1..(n - nt) |-> y[perm[nt + j]]],
         y_test  |-> [j \in 1..nt |-> y[perm[j]]]]

\* The permutation a RandomState seeded with seed draws for n items: any
\* permutation the first time, the same one ever after.
Draws(seed, n, perm) ==
    /\ perm \in Orders(n)
    /\ \A e \in rng : (e.seed = seed /\ e.n = n) => perm = e.perm

\* train_test_split raises ValueError when a partition would be empty.
TrainTestSplit(rows, X, y, next) ==
    IF Len(X) = 0 \/ Len(X) - NTest(Len(X)) = 0
    THEN /\ clf' = [state |-> "ValueError", rows |-> rows]
         /\ pc' = pc
         /\ UNCHANGED <<rng, splits>>
    ELSE \E seed \in SplitSeeds, perm \in Orders(Len(X)) :
            /\ Draws(seed, Len(X), perm)
            /\ rng' = rng \cup {[seed |-> seed, n |-> Len(X), perm |-> perm]}
            /\ clf' = [state |-> "fitted", rows |-> rows, split |-> SplitBy(X, y, perm)]
            /\ splits' = Append(splits, [X |-> X, y |-> y, split |-> SplitBy(X, y, perm)])
            /\ pc' = next

\* The whole cell: read_csv, eval, train_test_split (the fit and the report
\* that follow change nothing modelled here).
ClassifyCell ==
    /\ pc \in {"done", "halted", "classify"}
    /\ Len(splits) < 2
    /\ IF ~file.exists
       THEN /\ clf' = [state |-> "FileNotFoundError"]
            /\ UNCHANGED <<rng, splits, pc>>
       ELSE TrainTestSplit(ReadCsv(file),
                           [i \in DOMAIN file.rows |-> ReadCsv(file)[i].embedding],
                           LabelSeries(ReadCsv(file), "Score"), pc)
    /\ UNCHANGED <<input, df, idx, col, requests, file, run, prevFile,
                   train_file, valid_file, printed>>
    /\ UNCHANGED txvars

---------------------------------------------------------------------------
(* Transactions: token counts, embeddings, the saved table (part_001:289-352) *)

\* df['n_tokens'] = df.combined.apply(lambda x: len(tokenizer.encode(x)))
\* The column is computed; no row is removed.
CountTokens ==
    /\ pc = "t_tokens"
    /\ df' = [i \in DOMAIN df |-> df[i] @@ [n_tokens |-> n_tokens(df[i].combined)]]
    /\ idx' = 1
    /\ col' = <<>>
    /\ pc' = "t_embed_sim"
    /\ UNCHANGED <<input, requests, file, run, prevFile, clf, rng, splits,
                   train_file, valid_file, printed>>
    /\ UNCHANGED txvars

similarity_engine == "text-similarity-babbage-001"

search_engine == "text-search-babbage-doc-001"

\* df['babbage_similarity'] = df.combined.apply(...): one call
GetSimilarity ==
    /\ pc = "t_embed_sim"
    /\ EmbedNext(similarity_engine)
    /\ UNCHANGED <<input, df, file, run, prevFile, clf, rng, splits,
                   train_file, valid_file, printed>>
    /\ UNCHANGED txvars

\* df['babbage_similarity'] = <the column>
AssignSimilarity ==
    /\ pc = "t_embed_sim"
    /\ idx > Len(df)
    /\ df' = [i \in DOMAIN df |-> df[i] @@ [babbage_similarity |-> col[i]]]
    /\ idx' = 1
    /\ col' = <<>>
    /\ pc' = "t_embed_search"
    /\ UNCHANGED <<input, requests, file, run, prevFile, clf, rng, splits,
                   train_file, valid_file, printed>>
    /\ UNCHANGED txvars

\* df['babbage_search'] = df.combined.apply(...): one call
GetSearch ==
    /\ pc = "t_embed_search"
    /\ EmbedNext(search_engine)
    /\ UNCHANGED <<input, df, file, run, prevFile, clf, rng, splits,
                   train_file, valid_file, printed>>
    /\ UNCHANGED txvars

\* What to_csv writes for a transaction: both embeddings as texts.
TransCsvRow(r, i) ==
    [index |-> i - 1, Supplier |-> r.Supplier, Description |-> r.Description,
     Value |-> r.Value, Classification |-> r.Classification,
     combined |-> r.combined, n_tokens |-> r.n_tokens,
     babbage_similarity |-> Serialize(r.babbage_similarity),
     babbage_search |-> Serialize(r.babbage_search)]

\* A save that also runs when the cell was ended by an error (to_csv in a
\* finally block): it writes the records embedded so far.
SaveTransactionsAlways ==
    /\ \/ /\ pc = "t_embed_search"
          /\ idx > Len(df)
          /\ df' = [i \in DOMAIN df |-> df[i] @@ [babbage_search |-> col[i]]]
          /\ file' = [exists |-> TRUE, rows |-> [i \in DOMAIN df |-> TransCsvRow(df'[i], i)]]
       \/ /\ pc = "halted"
          /\ df' = df
          /\ file' = [exists |-> TRUE,
                      rows |-> [i \in DOMAIN col |->
                                  TransCsvRow(df[i] @@ [babbage_similarity |-> col[i],
                                                        babbage_search |-> col[i]], i)]]
    /\ pc' = "t_saved"
    /\ UNCHANGED <<input, idx, col, requests, run, prevFile, clf, rng, splits,
                   train_file, valid_file, printed>>
    /\ UNCHANGED txvars

\* df['babbage_search'] = <the column>; df.to_csv(embedding_path)
SaveTransactions ==
    /\ pc = "t_embed_search"
    /\ idx > Len(df)
    /\ df' = [i \in DOMAIN df |-> df[i] @@ [babbage_search |-> col[i]]]
    /\ file' = [exists |-> TRUE, rows |-> [i \in DOMAIN df |-> TransCsvRow(df'[i], i)]]
    /\ pc' = "t_saved"
    /\ UNCHANGED <<input, idx, col, requests, run, prevFile, clf, rng, splits,
                   train_file, valid_file, printed>>
    /\ UNCHANGED txvars

\* fs_df = pd.read_csv(embedding_path) and babbage_similarity.apply(eval):
\* the index that to_csv wrote comes back as a column (no index_col is
\* given) and babbage_search stays the text that was written.
ReadTransCsv(f) ==
    [i \in DOMAIN f.rows |->
        [index |-> f.rows[i].index,
         Supplier |-> f.rows[i].Supplier, Description |-> f.rows[i].Description,
         Value |-> f.rows[i].Value, Classification |-> f.rows[i].Classification,
         combined |-> f.rows[i].combined, n_tokens |-> f.rows[i].n_tokens,
         babbage_similarity |-> Eval(f.rows[i].babbage_similarity),
         babbage_search |-> f.rows[i].babbage_search]]

ReadEmbeddings ==
    /\ pc = "t_saved"
    /\ file.exists
    /\ clf' = [state |-> "loaded", rows |-> ReadTransCsv(file)]
    /\ pc' = "t_split"
    /\ UNCHANGED <<input, df, idx, col, requests, file, run, prevFile, rng,
                   splits, train_file, valid_file, printed>>
    /\ UNCHANGED txvars

\* train_test_split(list(fs_df.babbage_similarity.values),
\*                  fs_df.Classification, test_size=0.2, random_state=42)
SplitTransactions ==
    /\ pc = "t_split"
    /\ Len(splits) < 2
    /\ TrainTestSplit(clf.rows,
                      [i \in DOMAIN clf.rows |-> clf.rows[i].babbage_similarity],
                      LabelSeries(clf.rows, "Classification"), pc)
    /\ UNCHANGED <<input, df, idx, col, requests, file, run, prevFile,
                   train_file, valid_file, printed>>
    /\ UNCHANGED txvars

---------------------------------------------------------------------------
(* check_finetune_classes (part_001:123-155) *)

\* set() of result['completion'] over the lines of a prepared file
CompletionSet(f) == {f[i].completion : i \in DOMAIN f}

\* The function prints the number of lines of each file and then its verdict,
\* which compares the sizes of the two sets.
CheckFinetuneClasses ==
    /\ pc = "check"
    /\ printed' =
          <<Len(train_file), Len(valid_file),
            IF Cardinality(CompletionSet(train_file)) = Cardinality(CompletionSet(valid_file))
            THEN "All good"
            ELSE "Classes do not match, please prepare data again">>
    /\ pc' = "checked"
    /\ UNCHANGED <<input, df, idx, col, requests, file, run, prevFile, clf, rng,
                   splits, train_file, valid_file>>
    /\ UNCHANGED txvars

---------------------------------------------------------------------------
(* Initial states *)

NoFile == [exists |-> FALSE, rows |-> <<>>]

NoClf == [state |-> "none"]

\* Nothing of the transactions dataset is loaded.
FreshTransactions ==
    /\ dataset = <<>>
    /\ transactions = <<>>
    /\ prompt_template = <<>>
    /\ completed = <<>>
    /\ class_df = <<>>
    /\ ft_df_with_class = <<>>
    /\ holdout_df = <<>>

\* Everything but the input table and the first cell.
Fresh ==
    /\ df = <<>>
    /\ idx = 1
    /\ col = <<>>
    /\ requests = <<>>
    /\ file = NoFile
    /\ run = "first"
    /\ prevFile = NoFile
    /\ clf = NoClf
    /\ rng = {}
    /\ splits = <<>>
    /\ train_file = <<>>
    /\ valid_file = <<>>
    /\ printed = <<>>
    /\ FreshTransactions

\* A reviews table of one row drawn exhaustively, alone or next to a fixed row.
InitCombineReviews ==
    /\ pc = "load"
    /\ \/ \E r \in RichReviewRows(0) : input = <<r>>
       \/ \E r \in RichReviewRows(0), f \in FewReviewRows(1) : input = <<r, f>>
       \/ \E f \in FewReviewRows(0), r \in RichReviewRows(1) : input = <<f, r>>
    /\ Fresh

InitCombineTrans ==
    /\ pc = "t_read"
    /\ \/ \E r \in RichTransRows : input = <<r>>
       \/ \E r \in RichTransRows, f \in FewTransRows : input = <<r, f>>
       \/ \E f \in FewTransRows, r \in RichTransRows : input = <<f, r>>
    /\ Fresh

InitCombine == InitCombineReviews \/ InitCombineTrans

NextCombine == LoadReviews \/ ReadLabelled \/ CombineTransactions

SpecCombine == InitCombine /\ [][NextCombine]_vars

---------------------------------------------------------------------------
(* The combined field *)

\* t is s without its leading and trailing whitespace: s is whitespace, t,
\* whitespace, and t neither begins nor ends with whitespace.
IsStripOf(t, s) ==
    /\ Len(t) <= Len(s)
    /\ \E a \in 0..(Len(s) - Len(t)) :
          /\ \A i \in 1..Len(t) : s[a + i] = t[i]
          /\ \A i \in 1..a : s[i] \in Whitespace
          /\ \A i \in (a + Len(t) + 1)..Len(s) : s[i] \in Whitespace
    /\ t # <<>> => (t[1] \notin Whitespace /\ t[Len(t)] \notin Whitespace)

HasMissingField(r) ==
    \E f \in {"ProductId", "UserId", "Summary", "Text"} : r[f] = NaN

HasMissingNumber(r) == r.Time = NaNNum \/ r.Score = NaNNum

\* C1: after the load cell, the DataFrame holds exactly the rows of the file
\* with no missing field, and each row's combined field is "Title: ", that
\* row's Summary without leading and trailing whitespace, "; Content: ", and
\* that row's Text without leading and trailing whitespace.
C1_CombinedIsTitleAndContent ==
    pc = "subsample" =>
        /\ \A k \in DOMAIN input :
              (~HasMissingField(input[k]) /\ ~HasMissingNumber(input[k]))
                  <=> (\E i \in DOMAIN df : df[i].index = input[k].index)
        /\ \A i \in DOMAIN df : \E k \in DOMAIN input :
              /\ input[k].index = df[i].index
              /\ df[i].combined[1] = "Title: "
              /\ \E m \in 2..Len(df[i].combined) :
                    /\ df[i].combined[m] = "; Content: "
                    /\ IsStripOf(SubSeq(df[i].combined, 2, m - 1), input[k].Summary)
                    /\ IsStripOf(SubSeq(df[i].combined, m + 1, Len(df[i].combined)),
                                 input[k].Text)

\* Two rows were read, one was dropped for a missing field, and the Text of
\* the row that remains has whitespace at both ends.
C1_Witness ==
    /\ pc = "subsample"
    /\ Len(input) = 2
    /\ Len(df) = 1
    /\ Len(df[1].Text) >= 2
    /\ df[1].Text[1] \in Whitespace
    /\ df[1].Text[Len(df[1].Text)] \in Whitespace

\* C2: after the combined cell of the transactions notebook, each row's
\* combined field is "Supplier: ", its stripped Supplier, "; Description: ",
\* its stripped Description, "; Value: " and that row's own transaction
\* value, so rows with different values differ after "; Value: ".
C2_CombinedEndsWithOwnValue ==
    pc = "t_tokens" =>
        \A i \in DOMAIN df :
            df[i].combined =
                <<"Supplier: ">> \o strip(df[i].Supplier) \o <<"; Description: ">>
                    \o strip(df[i].Description) \o <<"; Value: ">>
                    \o IntStr(df[i].Value)

---------------------------------------------------------------------------
(* The reviews pipeline *)

\* Rows whose combined text is below, at and above max_tokens (the combined
\* text of a one-character Summary has three symbols besides the Text), and
\* a row with no Text.
SubsampleTexts == {Pad(max_tokens - 4), Pad(max_tokens - 3), Pad(max_tokens - 2), NaN}

SubsampleRows(i) ==
    {ReviewRow(i, t, <<"U">>, IF t = 1 THEN 1 ELSE 5, <<"a">>, tx) :
        t \in {1, 2}, tx \in SubsampleTexts}

\* The input files of the load and subsample cells.
InitSubsample ==
    /\ pc = "load"
    /\ \E n \in 0..MaxRows : input \in [1..n -> UNION {SubsampleRows(i) : i \in 0..(n - 1)}]
    /\ \A i \in DOMAIN input : input[i].index = i - 1
    /\ Fresh

NextSubsample == LoadReviews \/ Subsample

SpecSubsample == InitSubsample /\ [][NextSubsample]_vars

\* The input files of the whole pipeline: rows at and above max_tokens.
PipelineRows(i) ==
    {ReviewRow(i, t, <<"U">>, IF t = 1 THEN 1 ELSE 5, <<"a">>, tx) :
        t \in {1, 2}, tx \in {Pad(max_tokens - 3), Pad(max_tokens - 2)}}

InitReview ==
    /\ pc = "load"
    /\ \E n \in 0..MaxRows : input \in [1..n -> UNION {PipelineRows(i) : i \in 0..(n - 1)}]
    /\ \A i \in DOMAIN input : input[i].index = i - 1
    /\ Fresh

NextReview == LoadReviews \/ Subsample \/ GetEmbedding \/ SaveEmbeddings \/ Rerun

SpecReview == InitReview /\ [][NextReview]_vars

\* The input files of the pipeline followed by the classification notebook:
\* reviews at or above max_tokens, their Times alternating down the file.
InitReuse ==
    /\ pc = "load"
    /\ \E n \in 0..MaxRows :
          input \in [1..n -> UNION {PipelineRows(i) : i \in 0..(n - 1)}]
    /\ \A i \in DOMAIN input : input[i].index = i - 1 /\ input[i].Time = 1 + (i % 2)
    /\ Fresh

NextReuse ==
    LoadReviews \/ Subsample \/ GetEmbedding \/ SaveEmbeddings \/ Rerun \/ ClassifyCell

SpecReuse == InitReuse /\ [][NextReuse]_vars

---------------------------------------------------------------------------
(* The reviews that are embedded *)

Min(a, b) == IF a <= b THEN a ELSE b

\* The rows of the input file that survive dropna, by position in the file.
Complete == {k \in DOMAIN input : ~HasMissingField(input[k]) /\ ~HasMissingNumber(input[k])}

\* Token count of the combined text of input row k: the two literals and the
\* two stripped fields.
InputTokens(k) == 2 + Len(strip(input[k].Summary)) + Len(strip(input[k].Text))

Fits(k) == InputTokens(k) <= max_tokens

\* The subsample cell of the current run has run.
Subsampled == pc \in {"embed", "done", "halted"}

\* Input row k is a row of the DataFrame.
Kept(k) == \E i \in DOMAIN df : df[i].index = input[k].index

\* C3: a row over max_tokens is in neither the DataFrame that is embedded nor
\* the saved file, and its text is never sent to the provider; a row of
\* exactly max_tokens tokens passes the filter, so it is kept whenever fewer
\* than top_n other rows are at least as recent.
C3_LongRowsOmitted ==
    /\ Subsampled => \A i \in DOMAIN df : n_tokens(df[i].combined) <= max_tokens
    /\ \A q \in DOMAIN requests : n_tokens(requests[q].text) <= max_tokens
    /\ file.exists => \A i \in DOMAIN file.rows : n_tokens(file.rows[i].combined) <= max_tokens
    /\ Subsampled =>
          \A k \in Complete :
              (/\ InputTokens(k) = max_tokens
               /\ Cardinality({j \in Complete \ {k} : input[j].Time >= input[k].Time}) < top_n)
                  => Kept(k)

\* The file was saved from an input with a row over the limit and a row of
\* exactly max_tokens tokens, and the latter is in the file.
C3_Witness ==
    /\ pc = "done"
    /\ \E k \in Complete : ~Fits(k)
    /\ \E k \in Complete :
          /\ InputTokens(k) = max_tokens
          /\ \E i \in DOMAIN file.rows : file.rows[i].index = input[k].index

\* C9 as claimed: the subsample has min(top_n, number of within-limit
\* reviews) rows, and no within-limit review left out is more recent than a
\* review that is kept.
C9_TopNOfAllWithinLimit ==
    Subsampled =>
        /\ Len(df) = Min(top_n, Cardinality({k \in Complete : Fits(k)}))
        /\ \A k \in Complete : \A j \in Complete :
              (Fits(k) /\ ~Kept(k) /\ Kept(j)) => input[k].Time <= input[j].Time

\* W can be the 2 * top_n most recent reviews: it has that many rows (or all
\* of them) and no review outside it is more recent than one inside.
IsRecentCut(W) ==
    /\ W \subseteq Complete
    /\ Cardinality(W) = Min(2 * top_n, Cardinality(Complete))
    /\ \A a \in W : \A b \in Complete \ W : input[b].Time <= input[a].Time

\* C9 amended: the subsample is the top_n most recent within-limit reviews
\* among the 2 * top_n most recent reviews: it has min(top_n, number of
\* within-limit reviews among those) rows, all from them and within the
\* limit, and none of their within-limit reviews left out is more recent
\* than a review that is kept.
C9_TopNOfRecentCut ==
    Subsampled =>
        \E W \in SUBSET Complete :
            /\ IsRecentCut(W)
            /\ Len(df) = Min(top_n, Cardinality({k \in W : Fits(k)}))
            /\ \A k \in Complete : Kept(k) => (k \in W /\ Fits(k))
            /\ \A k \in W : \A j \in W :
                  (Fits(k) /\ ~Kept(k) /\ Kept(j)) => input[k].Time <= input[j].Time

\* More than top_n of the 2 * top_n most recent reviews are over the limit
\* and an older review is within it: the subsample has fewer than top_n rows.
C9_Witness ==
    /\ Subsampled
    /\ Cardinality(Complete) > 2 * top_n
    /\ Len(df) < top_n
    /\ \E k \in Complete : Fits(k) /\ ~Kept(k)

---------------------------------------------------------------------------
(* Runs of the embedding step *)

\* The calls the current run has made, in order.
RunRequests == SelectSeq(requests, LAMBDA q : q.run = run)

\* The provider has answered alike whenever it was asked alike.
ProviderRepeats ==
    \A a, b \in DOMAIN requests :
        (/\ requests[a].text = requests[b].text
         /\ requests[a].engine = requests[b].engine
         /\ requests[a].ok /\ requests[b].ok)
            => requests[a].vec = requests[b].vec

\* Each record saved by both runs has the same embedding text in both files.
SamePersisted ==
    \A i \in DOMAIN file.rows : \A j \in DOMAIN prevFile.rows :
        file.rows[i].index = prevFile.rows[j].index
            => file.rows[i].embedding = prevFile.rows[j].embedding

\* C5 as claimed: a second run on the same input leaves each record's saved
\* vector as the first run saved it, whatever the provider returns.
C5_RerunKeepsPersisted ==
    (pc = "done" /\ run = "rerun" /\ prevFile.exists) => SamePersisted

\* C5 amended: each run saves for each record the vector the provider
\* returned on that run for the record's combined text, so a second run
\* leaves the saved vectors as they were when the provider returns the same
\* vector for the same text and model.
C5_RerunPersistsWhatProviderReturns ==
    /\ pc = "done" =>
          /\ Len(RunRequests) = Len(file.rows)
          /\ \A i \in DOMAIN file.rows :
                /\ RunRequests[i].text = file.rows[i].combined
                /\ RunRequests[i].engine = embedding_model
                /\ RunRequests[i].ok
                /\ Eval(file.rows[i].embedding) = RunRequests[i].vec
    /\ (pc = "done" /\ run = "rerun" /\ prevFile.exists /\ ProviderRepeats) => SamePersisted

\* A second run saved a record that the first run had saved, with the
\* provider answering alike.
C5_Witness ==
    /\ pc = "done"
    /\ run = "rerun"
    /\ ProviderRepeats
    /\ \E i \in DOMAIN file.rows : \E j \in DOMAIN prevFile.rows :
          file.rows[i].index = prevFile.rows[j].index

\* C6 as claimed: no embedding request is made for a record whose vector is
\* in the saved file.
C6_NoRequestForPersisted ==
    [][Len(requests') > Len(requests) =>
          ~(/\ file.exists
            /\ \E i \in DOMAIN file.rows :
                  file.rows[i].combined = requests'[Len(requests')].text)]_vars

\* C6 amended: once the table is saved, the classification notebook takes each
\* record's vector from the saved file, where it is a vector the provider
\* returned for that record's text, and makes no embedding request.  (A second
\* run of the embedding notebook asks for every retained record again.)
C6_ClassifierReusesPersisted ==
    [][clf' # clf =>
          /\ requests' = requests
          /\ file' = file
          /\ clf'.state # "FileNotFoundError" =>
                /\ file.exists
                /\ Len(clf'.rows) = Len(file.rows)
                /\ \A i \in DOMAIN file.rows :
                      /\ clf'.rows[i].combined = file.rows[i].combined
                      /\ \E q \in DOMAIN requests :
                            /\ requests[q].text = file.rows[i].combined
                            /\ requests[q].ok
                            /\ requests[q].vec = clf'.rows[i].embedding]_vars

\* The classification cell has loaded a saved record.
C6_Witness ==
    /\ clf.state \in {"fitted", "ValueError"}
    /\ Len(clf.rows) > 0
    /\ file.exists

---------------------------------------------------------------------------
(* The transactions pipeline *)

\* The limit of the provider's model (8191 for the reviews' model,
\* part_000:48), above max_tokens and scaled with it so that the text of a
\* table's value column fits.
provider_limit == 8 * max_tokens

\* The fixed rows, a row with no Supplier, and a row whose Description alone
\* is as long as the provider's limit.
PipelineTransRows ==
    FewTransRows \cup
    {TransRow(<<>>, <<"a">>, 5, "Utility Bills"),
     TransRow(<<"a">>, Pad(provider_limit), 12, "Building Improvement")}

InitTrans ==
    /\ pc = "t_read"
    /\ \E n \in 0..MaxTrans : input \in [1..n -> PipelineTransRows]
    /\ Fresh

NextTrans ==
    \/ ReadLabelled
    \/ CombineTransactions
    \/ CountTokens
    \/ GetSimilarity
    \/ AssignSimilarity
    \/ GetSearch
    \/ SaveTransactions
    \/ ReadEmbeddings

SpecTrans == InitTrans /\ [][NextTrans]_vars

\* C4: every text sent to the provider by the transactions notebook has a
\* token count within the limit.
C4_RequestsWithinLimit ==
    \A q \in DOMAIN requests : n_tokens(requests[q].text) <= provider_limit

\* C8: a provider error ends the batch.  The failed call is the last call
\* made (no retry, no call for a later record), the cell has halted at the
\* failed record, and the column holds exactly the vectors the provider
\* returned for the records before it (nothing is stored for the failed one).
C8_ErrorHaltsBatch ==
    /\ \A q \in DOMAIN RunRequests : ~RunRequests[q].ok => q = Len(RunRequests)
    /\ (\E q \in DOMAIN RunRequests : ~RunRequests[q].ok) <=> pc = "halted"
    /\ pc = "halted" =>
          /\ idx \in DOMAIN df
          /\ RunRequests[Len(RunRequests)].text = df[idx].combined
          /\ Len(col) = idx - 1
          /\ \A i \in DOMAIN col :
                /\ col[i] \in Vectors
                /\ RunRequests[Len(RunRequests) - idx + i].text = df[i].combined
                /\ RunRequests[Len(RunRequests) - idx + i].vec = col[i]

\* The provider failed on a record that is not the last one, after it had
\* answered for an earlier record.
C8_Witness ==
    /\ pc = "halted"
    /\ 1 < idx
    /\ idx < Len(df)

---------------------------------------------------------------------------
(* The split *)

\* A saved reviews table: any rows with the text of a vector and a Score.
SavedReviewRows(i) ==
    {WithEmbedding(WithTokens(WithCombined(ReviewRow(i, 1, <<"U">>, sc, <<"a">>, <<"a">>))),
                   Serialize(v)) : sc \in {1, 5}, v \in Vectors}

\* A saved transactions table.
SavedTransRows(i) ==
    {[index |-> i, Supplier |-> <<"a">>, Description |-> <<"a">>, Value |-> 5,
      Classification |-> c, combined |-> <<"Supplier: ", "a">>, n_tokens |-> 2,
      babbage_similarity |-> Serialize(v), babbage_search |-> Serialize(v)] :
        c \in Classes, v \in Vectors}

InitClassify ==
    /\ df = <<>> /\ idx = 1 /\ col = <<>> /\ requests = <<>> /\ input = <<>>
    /\ run = "first" /\ prevFile = NoFile /\ clf = NoClf /\ rng = {} /\ splits = <<>>
    /\ train_file = <<>> /\ valid_file = <<>> /\ printed = <<>>
    /\ FreshTransactions
    /\ \E n \in 0..MaxRows :
          \/ /\ pc = "classify"
             /\ \E rows \in [1..n -> UNION {SavedReviewRows(i) : i \in 0..(n - 1)}] :
                   /\ \A i \in 1..n : rows[i].index = i - 1
                   /\ file = [exists |-> TRUE, rows |-> rows]
          \/ /\ pc = "t_saved"
             /\ \E rows \in [1..n -> UNION {SavedTransRows(i) : i \in 0..(n - 1)}] :
                   /\ \A i \in 1..n : rows[i].index = i - 1
                   /\ file = [exists |-> TRUE, rows |-> rows]

NextClassify == ClassifyCell \/ ReadEmbeddings \/ SplitTransactions

SpecClassify == InitClassify /\ [][NextClassify]_vars

Labels(y) == {y[j].label : j \in DOMAIN y}

\* X[j] and y[j] are the feature and the label of the input row y[j] names.
Paired(sp, X, y) ==
    /\ Len(X) = Len(y)
    /\ \A j \in DOMAIN y :
          /\ y[j].label + 1 \in DOMAIN sp.X
          /\ X[j] = sp.X[y[j].label + 1]
          /\ y[j] = sp.y[y[j].label + 1]

\* C7: every split made so far puts each input record in exactly one of
\* train and test, with its feature and its label at the same place, and two
\* splits of the same input are the same.
C7_SplitPartitions ==
    /\ \A s \in DOMAIN splits :
          LET sp == splits[s]
          IN  /\ Labels(sp.split.y_train) \cap Labels(sp.split.y_test) = {}
              /\ Labels(sp.split.y_train) \cup Labels(sp.split.y_test) = 0..(Len(sp.X) - 1)
              /\ Len(sp.split.y_train) + Len(sp.split.y_test) = Len(sp.X)
              /\ Paired(sp, sp.split.X_train, sp.split.y_train)
              /\ Paired(sp, sp.split.X_test, sp.split.y_test)
    /\ \A s, t \in DOMAIN splits :
          (splits[s].X = splits[t].X /\ splits[s].y = splits[t].y)
              => splits[s].split = splits[t].split

\* The same table of three or more rows has been split twice.
C7_Witness ==
    /\ Len(splits) = 2
    /\ Len(splits[1].X) >= 3
    /\ splits[1].X = splits[2].X

---------------------------------------------------------------------------
(* The class check *)

\* Most lines of a prepared file.
MaxLines == 2

Completions == {" 0", " 1", " 2"}

\* A line of a prepared .jsonl file.
PreparedLines == {[prompt |-> <<"Supplier: ", "a", "\n\n###\n\n">>, completion |-> c] : c \in Completions}

InitCheck ==
    /\ pc = "check"
    /\ input = <<>>
    /\ df = <<>> /\ idx = 1 /\ col = <<>> /\ requests = <<>> /\ file = NoFile
    /\ run = "first" /\ prevFile = NoFile /\ clf = NoClf /\ rng = {} /\ splits = <<>>
    /\ printed = <<>>
    /\ FreshTransactions
    /\ \E n \in 0..MaxLines : train_file \in [1..n -> PreparedLines]
    /\ \E n \in 0..MaxLines : valid_file \in [1..n -> PreparedLines]

NextCheck == CheckFinetuneClasses

SpecCheck == InitCheck /\ [][NextCheck]_vars

\* C10: the function prints 'All good' exactly when the two files have the
\* same set of completions, and the other message otherwise.
C10_AllGoodIffSameClasses ==
    pc = "checked" =>
        /\ printed[3] = "All good"
              <=> CompletionSet(train_file) = CompletionSet(valid_file)
        /\ printed[3] # "All good"
              => printed[3] = "Classes do not match, please prepare data again"

---------------------------------------------------------------------------
(* Transactions: the dataset and the holdout set (part_001:77-78, 571-572) *)

\* Most rows of the transactions dataset.
MaxData == 4

\* The literal 101 of iloc[101:] (part_001:571); scaled so that a dataset of
\* MaxData rows has rows on both sides of it.
holdout_start == 2

\* One row of data/25000_spend_dataset_current.csv.
DataRow(su, de, v) == [Supplier |-> su, Description |-> de, Value |-> v]

DataRows == {DataRow(su, <<"a">>, 5) : su \in {<<"a">>, <<"a", "a">>}}

\* transactions = pd.read_csv('./data/25000_spend_dataset_current.csv', ...):
\* the rows in file order under a RangeIndex.
LoadTransactions ==
    /\ pc = "d_load"
    /\ transactions' = [i \in DOMAIN dataset |->
                          [index |-> i - 1, Supplier |-> dataset[i].Supplier,
                           Description |-> dataset[i].Description,
                           Value |-> dataset[i].Value]]
    /\ pc' = "t_read"
    /\ UNCHANGED <<input, df, idx, col, requests, file, run, prevFile, clf, rng,
                   splits, train_file, valid_file, printed>>
    /\ UNCHANGED <<dataset, prompt_template, completed, class_df,
                   ft_df_with_class, holdout_df>>

\* iloc that takes the slice's start for the number of the first row kept,
\* counting from one.
ilocFromOne(d, start) == SubSeq(d, start, Len(d))

\* DataFrame.iloc[start:]: the rows from position start on, positions counted
\* from zero; each row keeps its index label.
iloc(d, start) == SubSeq(d, start + 1, Len(d))

\* holdout_df = transactions.copy().iloc[101:]
\* The cell reads nothing but transactions; the cells between the labelled
\* set and this one leave transactions as it was loaded.
Holdout ==
    /\ pc = "t_combine"
    /\ holdout_df' = iloc(transactions, holdout_start)
    /\ pc' = "holdout"
    /\ UNCHANGED <<input, df, idx, col, requests, file, run, prevFile, clf, rng,
                   splits, train_file, valid_file, printed>>
    /\ UNCHANGED <<dataset, transactions, prompt_template, completed, class_df,
                   ft_df_with_class>>

\* The files of the holdout test: a dataset, and a labelled file that holds
\* the dataset's first rows, as many as were labelled, each with its class.
InitHoldout ==
    /\ pc = "d_load"
    /\ \E n \in 0..MaxData : dataset \in [1..n -> DataRows]
    /\ \E k \in 0..Len(dataset) :
          /\ input \in [1..k -> {TransRow(r.Supplier, r.Description, r.Value, c) :
                                    r \in DataRows, c \in Classes}]
          /\ \A i \in 1..k : /\ input[i].Supplier = dataset[i].Supplier
                             /\ input[i].Description = dataset[i].Description
                             /\ input[i].Value = dataset[i].Value
    /\ df = <<>> /\ idx = 1 /\ col = <<>> /\ requests = <<>> /\ file = NoFile
    /\ run = "first" /\ prevFile = NoFile /\ clf = NoClf /\ rng = {} /\ splits = <<>>
    /\ train_file = <<>> /\ valid_file = <<>> /\ printed = <<>>
    /\ transactions = <<>> /\ prompt_template = <<>> /\ completed = <<>>
    /\ class_df = <<>> /\ ft_df_with_class = <<>> /\ holdout_df = <<>>

NextHoldout == LoadTransactions \/ ReadLabelled \/ Holdout

SpecHoldout == InitHoldout /\ [][NextHoldout]_vars

\* Two rows record the same transaction.
SameTransaction(a, b) ==
    /\ a.Supplier = b.Supplier
    /\ a.Description = b.Description
    /\ a.Value = b.Value

IndexLabels(d) == {d[i].index : i \in DOMAIN d}

\* The holdout set is the rows of the dataset at positions holdout_start and
\* later, in order: it shares no position with the first holdout_start rows
\* and the two cover the dataset.
HoldoutIsLaterPositions ==
    /\ Len(holdout_df) = (IF Len(transactions) > holdout_start
                          THEN Len(transactions) - holdout_start ELSE 0)
    /\ \A j \in DOMAIN holdout_df :
          /\ holdout_df[j] = transactions[holdout_start + j]
          /\ holdout_df[j].index = holdout_start + j - 1
    /\ IndexLabels(holdout_df) \cap 0..(holdout_start - 1) = {}
    /\ IndexLabels(holdout_df) \cup (0..(holdout_start - 1) \cap IndexLabels(transactions))
          = IndexLabels(transactions)

\* Row h of the dataset is a transaction of the labelled set: the labelled
\* file was made from the dataset's first rows, so its row at h's position
\* records h.
IsLabelled(h) ==
    /\ h.index + 1 \in DOMAIN df
    /\ SameTransaction(df[h.index + 1], h)

\* No row of the holdout set is a transaction of the labelled set.
NoLabelledInHoldout == \A j \in DOMAIN holdout_df : ~IsLabelled(holdout_df[j])

---------------------------------------------------------------------------
(* Transactions: zero-shot classification (part_001:99-121, 173-222) *)

\* The placeholder words of the prompt, two symbols each, so that a field can
\* hold a whole word or a part of one.
SUPPLIER_NAME == <<"SUPPLIER_", "NAME">>

DESCRIPTION_TEXT == <<"DESCRIPTION_", "TEXT">>

TRANSACTION_VALUE == <<"TRANSACTION_", "VALUE">>

\* zero_shot_prompt (part_001:173-184): the fixed text between the
\* placeholders is one symbol a stretch.
zero_shot_prompt ==
    <<"You are a data expert ... Transaction:\n\nSupplier: ">> \o SUPPLIER_NAME
        \o <<"\nDescription: ">> \o DESCRIPTION_TEXT
        \o <<"\nValue: ">> \o TRANSACTION_VALUE
        \o <<"\n\nThe classification is:">>

\* Prompts classify_transaction can be given: the notebook's, and one that
\* names the supplier twice, the description first and no value.
Templates ==
    {zero_shot_prompt,
     <<"Classify ">> \o DESCRIPTION_TEXT \o <<" from ">> \o SUPPLIER_NAME
        \o <<" (">> \o SUPPLIER_NAME \o <<")">>}

\* transactions.iloc[:25]
zero_shot_sample == 25

\* Supplier and Description values: plain text, a placeholder word, a part
\* of one, and a missing value.
FieldTexts ==
    {<<>>, <<"a">>, <<"a", " ">>, SUPPLIER_NAME, DESCRIPTION_TEXT, TRANSACTION_VALUE,
     <<"a">> \o DESCRIPTION_TEXT, <<"DESCRIPTION_">>, <<"TEXT">>, NaN}

\* str.replace(old, new) for a non-empty old: every occurrence of old, found
\* from left to right without overlap, becomes new; what was put in is not
\* searched again.
RECURSIVE replace(_, _, _)
replace(s, old, new) ==
    IF Len(s) < Len(old) THEN s
    ELSE IF SubSeq(s, 1, Len(old)) = old
         THEN new \o replace(SubSeq(s, Len(old) + 1, Len(s)), old, new)
         ELSE <<Head(s)>> \o replace(Tail(s), old, new)

\* The three replace calls of classify_transaction, one after the other, each
\* on the result of the one before.
FilledPrompt(transaction, prompt) ==
    replace(replace(replace(prompt, SUPPLIER_NAME, transaction.Supplier),
                    DESCRIPTION_TEXT, transaction.Description),
            TRANSACTION_VALUE, IntStr(transaction.Value))

\* What openai.Completion.create returns: a list of choices, each with a
\* text, or it raises.
ChoiceTexts ==
    {<<>>, <<"a">>, <<"\n">>, <<" ", "a", "\n">>, <<"\n", "a", "\n", "a">>}

CompletionResponses ==
    {[ok |-> TRUE, choices |-> <<t>>] : t \in ChoiceTexts}
        \cup {[ok |-> TRUE, choices |-> <<t, <<"a", "\n">>>>] : t \in ChoiceTexts}
        \cup {[ok |-> FALSE, choices |-> <<>>]}

\* request_completion(prompt)['choices'][0]['text'].replace('\n', '')
Classification(response) == replace(response.choices[1], <<"\n">>, <<>>)

\* test_transactions = transactions.iloc[:25]
test_transactions ==
    SubSeq(transactions, 1, IF Len(transactions) < zero_shot_sample
                            THEN Len(transactions) ELSE zero_shot_sample)

\* One call of classify_transaction(x, zero_shot_prompt) made by
\* test_transactions.apply: replace raises TypeError for a field that is not
\* a string (a missing value); otherwise the prompt is sent and the text of
\* the first choice comes back, or the error of the service ends the cell.
ClassifyTransaction ==
    /\ pc = "t_read"
    /\ idx <= Len(test_transactions)
    /\ IF isna(test_transactions[idx].Supplier) \/ isna(test_transactions[idx].Description)
       THEN /\ pc' = "halted"
            /\ UNCHANGED <<idx, completed>>
       ELSE \E response \in CompletionResponses :
               /\ completed' = Append(completed,
                     [row |-> idx,
                      prompt |-> FilledPrompt(test_transactions[idx], prompt_template),
                      response |-> response,
                      classification |-> IF response.ok THEN Classification(response)
                                         ELSE <<>>])
               /\ idx' = IF response.ok THEN idx + 1 ELSE idx
               /\ pc' = IF response.ok THEN pc ELSE "halted"
    /\ UNCHANGED <<input, df, col, requests, file, run, prevFile, clf, rng,
                   splits, train_file, valid_file, printed>>
    /\ UNCHANGED <<dataset, transactions, prompt_template, class_df,
                   ft_df_with_class, holdout_df>>

\* The dataset of the zero-shot test: one transaction with any fields, alone
\* or before a plain one, and any of the prompts.
InitZeroShot ==
    /\ pc = "d_load"
    /\ \E su \in FieldTexts, de \in FieldTexts, v \in TransactionValues :
          \/ dataset = <<DataRow(su, de, v)>>
          \/ dataset = <<DataRow(su, de, v), DataRow(<<"a">>, <<"a">>, 5)>>
    /\ prompt_template \in Templates
    /\ input = <<>>
    /\ df = <<>> /\ idx = 1 /\ col = <<>> /\ requests = <<>> /\ file = NoFile
    /\ run = "first" /\ prevFile = NoFile /\ clf = NoClf /\ rng = {} /\ splits = <<>>
    /\ train_file = <<>> /\ valid_file = <<>> /\ printed = <<>>
    /\ transactions = <<>> /\ completed = <<>>
    /\ class_df = <<>> /\ ft_df_with_class = <<>> /\ holdout_df = <<>>

NextZeroShot == LoadTransactions \/ ClassifyTransaction

SpecZeroShot == InitZeroShot /\ [][NextZeroShot]_vars

\* s begins with w.
StartsWith(s, w) == Len(s) >= Len(w) /\ SubSeq(s, 1, Len(w)) = w

\* The template with each placeholder word replaced by the transaction's
\* field, the fields put in as they are.
RECURSIVE Interpolated(_, _)
Interpolated(t, transaction) ==
    IF t = <<>> THEN <<>>
    ELSE IF StartsWith(t, SUPPLIER_NAME)
         THEN transaction.Supplier \o Interpolated(SubSeq(t, 3, Len(t)), transaction)
    ELSE IF StartsWith(t, DESCRIPTION_TEXT)
         THEN transaction.Description \o Interpolated(SubSeq(t, 3, Len(t)), transaction)
    ELSE IF StartsWith(t, TRANSACTION_VALUE)
         THEN IntStr(transaction.Value) \o Interpolated(SubSeq(t, 3, Len(t)), transaction)
    ELSE <<Head(t)>> \o Interpolated(Tail(t), transaction)

\* C12: every prompt sent for a transaction is the template with the three
\* placeholder words replaced by that transaction's Supplier, Description and
\* value, the values verbatim also when they hold a placeholder word, and
\* what is returned is the text of the first choice without its newlines.
C12_PromptIsTemplateWithFields ==
    \A c \in DOMAIN completed :
        /\ completed[c].prompt
              = Interpolated(prompt_template, transactions[completed[c].row])
        /\ completed[c].response.ok =>
              completed[c].classification
                  = SelectSeq(completed[c].response.choices[1], LAMBDA x : x # "\n")

---------------------------------------------------------------------------
(* Transactions: fine-tune data preparation (part_001:399-438) *)

\* The values of the Classification column.
ClassSet(d) == {d[i].Classification : i \in DOMAIN d}

\* list(ft_prep_df['Classification']): every value of the column, repeats
\* and all.
ClassListsWithRepeats(d) == {[i \in DOMAIN d |-> d[i].Classification]}

\* classes = list(set(ft_prep_df['Classification'])): the distinct values in
\* the order the set yields them, which is any order.
ClassLists(d) ==
    {c \in [1..Cardinality(ClassSet(d)) -> ClassSet(d)] :
        \A i, j \in DOMAIN c : c[i] = c[j] => i = j}

\* pd.DataFrame(classes).reset_index() with columns ['class_id', 'class']
ClassTable(classes) == [i \in DOMAIN classes |-> [class_id |-> i - 1, class |-> classes[i]]]

\* The class table cell.  ft_prep_df is fs_df as it was read.  With no class
\* at all the frame has the index column only, and naming two columns raises
\* ValueError.
BuildClassDf ==
    /\ pc = "t_split"
    /\ IF clf.rows = <<>>
       THEN /\ pc' = "halted"
            /\ UNCHANGED class_df
       ELSE /\ \E classes \in ClassLists(clf.rows) : class_df' = ClassTable(classes)
            /\ pc' = "ft_merge"
    /\ UNCHANGED <<input, df, idx, col, requests, file, run, prevFile, clf, rng,
                   splits, train_file, valid_file, printed>>
    /\ UNCHANGED <<dataset, transactions, prompt_template, completed,
                   ft_df_with_class, holdout_df>>

\* The rows an inner merge makes of one left row: one for each right row
\* whose class is the left row's Classification.
Matches(l, right) ==
    LET hit == SelectSeq(right, LAMBDA r : r.class = l.Classification)
    IN  [k \in DOMAIN hit |-> l @@ [class_id |-> hit[k].class_id, class |-> hit[k].class]]

\* The first places of the keys of the left rows, in order.
RECURSIVE KeysInOrder(_, _)
KeysInOrder(left, seen) ==
    IF left = <<>> THEN <<>>
    ELSE IF Head(left).Classification \in seen THEN KeysInOrder(Tail(left), seen)
    ELSE <<Head(left).Classification>>
            \o KeysInOrder(Tail(left), seen \cup {Head(left).Classification})

\* ft_prep_df.merge(class_df, left_on='Classification', right_on='class',
\* how='inner'): the matching pairs, in the order of the left rows or, as the
\* hash join of some pandas versions leaves them, grouped by key.
merge(left, right) ==
    {Concat([i \in DOMAIN left |-> Matches(left[i], right)]),
     Concat([k \in DOMAIN KeysInOrder(left, {}) |->
               Concat([i \in DOMAIN left |->
                         IF left[i].Classification = KeysInOrder(left, {})[k]
                         THEN Matches(left[i], right) ELSE <<>>])])}

\* The separator put at the end of each prompt.
separator == <<"\n\n###\n\n">>

\* class_id becomes ' ' + str(class_id), the class column is dropped and
\* prompt is combined + the separator.
FtRow(r) ==
    [index |-> r.index, Supplier |-> r.Supplier, Description |-> r.Description,
     Value |-> r.Value, Classification |-> r.Classification,
     combined |-> r.combined, n_tokens |-> r.n_tokens,
     babbage_similarity |-> r.babbage_similarity, babbage_search |-> r.babbage_search,
     class_id |-> <<" ">> \o IntStr(r.class_id),
     prompt |-> r.combined \o separator]

\* The merge cell.
MergeClasses ==
    /\ pc = "ft_merge"
    /\ \E merged \in merge(clf.rows, class_df) :
          ft_df_with_class' = [i \in DOMAIN merged |-> FtRow(merged[i])]
    /\ pc' = "ft_prepared"
    /\ UNCHANGED <<input, df, idx, col, requests, file, run, prevFile, clf, rng,
                   splits, train_file, valid_file, printed>>
    /\ UNCHANGED <<dataset, transactions, prompt_template, completed, class_df,
                   holdout_df>>

\* Classes of the labelled set (part_001:173-184 names five).
FinetuneClasses == Classes \cup {"Software/IT"}

\* A saved labelled table: any classes, two combined texts.
FinetuneRows(i) ==
    {[index |-> i, Supplier |-> <<"a">>, Description |-> de, Value |-> 5,
      Classification |-> c,
      combined |-> <<"Supplier: ", "a", "; Description: ">> \o de,
      n_tokens |-> 3 + Len(de),
      babbage_similarity |-> Serialize(<<3, 4>>), babbage_search |-> Serialize(<<3, 4>>)] :
        c \in FinetuneClasses, de \in {<<"a">>, <<"a", "a">>}}

InitFinetune ==
    /\ pc = "t_saved"
    /\ \E n \in 0..MaxTrans :
          \E rows \in [1..n -> UNION {FinetuneRows(i) : i \in 0..(n - 1)}] :
             /\ \A i \in 1..n : rows[i].index = i - 1
             /\ file = [exists |-> TRUE, rows |-> rows]
    /\ input = <<>>
    /\ df = <<>> /\ idx = 1 /\ col = <<>> /\ requests = <<>>
    /\ run = "first" /\ prevFile = NoFile /\ clf = NoClf /\ rng = {} /\ splits = <<>>
    /\ train_file = <<>> /\ valid_file = <<>> /\ printed = <<>>
    /\ FreshTransactions

NextFinetune == ReadEmbeddings \/ BuildClassDf \/ MergeClasses

SpecFinetune == InitFinetune /\ [][NextFinetune]_vars

\* The id the class table gives class c.
IdsOf(c) == {class_df[k].class_id : k \in {k \in DOMAIN class_df : class_df[k].class = c}}

\* C13: the class table gives each distinct Classification exactly one id and
\* the ids are exactly 0..k-1 for k distinct classes; after the merge every
\* labelled record has exactly one example, whose completion is a space and
\* the id of the record's own class and whose prompt is the record's combined
\* text and the separator, and there is no other example.
C13_ClassIdsAndExamples ==
    /\ pc \in {"ft_merge", "ft_prepared"} =>
          /\ Len(class_df) = Cardinality(ClassSet(clf.rows))
          /\ {class_df[k].class : k \in DOMAIN class_df} = ClassSet(clf.rows)
          /\ {class_df[k].class_id : k \in DOMAIN class_df}
                = 0..(Cardinality(ClassSet(clf.rows)) - 1)
          /\ \A c \in ClassSet(clf.rows) : Cardinality(IdsOf(c)) = 1
          /\ \A a, b \in ClassSet(clf.rows) : IdsOf(a) = IdsOf(b) => a = b
    /\ pc = "ft_prepared" =>
          /\ Len(ft_df_with_class) = Len(clf.rows)
          /\ \A i \in DOMAIN clf.rows :
                \E j \in DOMAIN ft_df_with_class :
                    /\ ft_df_with_class[j].index = clf.rows[i].index
                    /\ \A k \in DOMAIN ft_df_with_class :
                          ft_df_with_class[k].index = clf.rows[i].index => k = j
                    /\ ft_df_with_class[j].combined = clf.rows[i].combined
                    /\ ft_df_with_class[j].Classification = clf.rows[i].Classification
                    /\ \E id \in IdsOf(clf.rows[i].Classification) :
                          ft_df_with_class[j].class_id = <<" ">> \o IntStr(id)
                    /\ ft_df_with_class[j].prompt
                          = clf.rows[i].combined \o <<"\n\n###\n\n">>

\* A labelled set of three records in two classes, the second class first
\* met in the middle record, has been prepared.
C13_Witness ==
    /\ pc = "ft_prepared"
    /\ Len(clf.rows) = 3
    /\ clf.rows[1].Classification = clf.rows[3].Classification
    /\ clf.rows[1].Classification # clf.rows[2].Classification
    /\ Len(ft_df_with_class) = 3

---------------------------------------------------------------------------
(* Transactions: the embedding cells run, and run again (part_001:269-315) *)

\* Most rows of a labelled table whose embedding cells are run twice.
MaxPersist == 2

\* The notebook's embedding section is run again on the same labelled file.
RerunTransactions ==
    /\ pc \in {"t_saved", "halted"}
    /\ run = "first"
    /\ run' = "rerun"
    /\ prevFile' = file
    /\ pc' = "t_read"
    /\ df' = <<>>
    /\ idx' = 1
    /\ col' = <<>>
    /\ UNCHANGED <<input, requests, file, clf, rng, splits, train_file,
                   valid_file, printed>>
    /\ UNCHANGED txvars

InitPersist ==
    /\ pc = "t_read"
    /\ \E n \in 0..MaxPersist : input \in [1..n -> FewTransRows]
    /\ Fresh

NextPersist ==
    \/ ReadLabelled
    \/ CombineTransactions
    \/ CountTokens
    \/ GetSimilarity
    \/ AssignSimilarity
    \/ GetSearch
    \/ SaveTransactions
    \/ RerunTransactions

SpecPersist == InitPersist /\ [][NextPersist]_vars

\* Every record of the file has both of its vectors.
FileIsWhole ==
    file.exists =>
        \A i \in DOMAIN file.rows :
            /\ Eval(file.rows[i].babbage_similarity) \in Vectors
            /\ Eval(file.rows[i].babbage_search) \in Vectors

\* C14: a run that halts on a provider error persists nothing.  Until its
\* save, and so when it has halted, the file is as the run found it (absent,
\* or as the earlier run left it); the file changes only when every record
\* has received its vectors in this run with no call failed, and then holds
\* every record; and no file ever holds a record without its vectors.
C14_HaltPersistsNothing ==
    /\ [](pc # "t_saved" => file = prevFile)
    /\ [](FileIsWhole)
    /\ [][file' # file =>
            /\ pc = "t_embed_search"
            /\ idx > Len(df)
            /\ \A q \in DOMAIN RunRequests : RunRequests[q].ok
            /\ Len(RunRequests) = 2 * Len(df)
            /\ Len(file'.rows) = Len(df)
            /\ \A i \in DOMAIN df :
                  /\ file'.rows[i].combined = df[i].combined
                  /\ Eval(file'.rows[i].babbage_similarity) = df[i].babbage_similarity
                  /\ Eval(file'.rows[i].babbage_search) = col[i]]_vars

\* A second run halted in its second pass, after the first record had both
\* of its vectors, with the file of the first run in place.
C14_Witness ==
    /\ pc = "halted"
    /\ run = "rerun"
    /\ prevFile.exists
    /\ Len(prevFile.rows) >= 2
    /\ file = prevFile
    /\ idx = 2
    /\ \A i \in DOMAIN df : "babbage_similarity" \in DOMAIN df[i]

====
